---- MODULE Spec2Model ----
(***************************************************************************)
(* CampusHub 2.0: task lifecycle (routes/tasks), M-Pesa settlement         *)
(* (routes/mpesa), transaction ledger, notification store and routes, the  *)
(* gateway adapter (access-token cache, phone normalization), the message  *)
(* routes and the Socket.IO server, modelled as one state machine.  A REST *)
(* handler, gateway callback or socket event handler is one atomic action; *)
(* payout initiation, assign and pay are also given in two parts, split at *)
(* their awaits, for the runs in which requests overlap.  Inputs (caller,  *)
(* ids, amounts, tokens, gateway outcome, outcome of the notification      *)
(* write) are drawn from small sets.                                       *)
(*                                                                         *)
(* Money is carried in tenths of a shilling (KES), so that the 10%         *)
(* commission of every whole-shilling amount is exact and Math.round at    *)
(* the gateway boundary has something to round.                            *)
(***************************************************************************)
EXTENDS Integers, Sequences, FiniteSets, TLC

\* ---------------------------------------------------------------- bounds
NumUsers == 3
MaxTasks == 1
MaxTxs == 2
MaxNotifs == 2
MaxClock == 2
MaxInFlight == 2
MaxTokens == 3
MaxSeconds == 4
MaxConns == 2
MaxMessages == 1

\* ------------------------------------------------------------- constants
CommissionDivisor == 10
SafetyMargin == 60

Users == 1..NumUsers
Posters == {1}
Parties == {1, 2}
NoUser == 0
TaskIds == 1..MaxTasks
NoTask == 0
ConvIds == 1..MaxTxs
NoConv == 0

\* TransID of a confirmation callback (the gateway's receipt number); a
\* record that no confirmation has touched carries none.
TransIDs == {1, 2}
NoTransID == 0
NoToken == 0

\* n shillings, in tenths of a shilling.
KES(n) == n * 10
Budgets == {KES(500)}
Amounts == {KES(500), KES(1000), KES(505)}

TaskStatuses == {"open", "in-progress", "completed", "paid", "cancelled"}
PaymentStatuses == {"unpaid", "paid"}
TxStatuses == {"PENDING", "COMPLETED", "FAILED", "CANCELLED", "TIMEOUT"}
NotificationTypes == {"application", "assignment", "completion", "payment", "general"}

VARIABLES tasks, txs, notifs, now, resp,
          inflight, tokenCache, tokenResult, phoneIn, phoneOut,
          socketUser, rooms, messages, delivered

\* The gateway adapter's own state: the token cache, the outcome of the last
\* getAccessToken call, and the argument and outcome of the last
\* validatePhoneNumber call.
adapter == <<tokenCache, tokenResult, phoneIn, phoneOut>>

\* The realtime server: socket.userId and the rooms of every connection, the
\* message store, and the events the last handler emitted to connections.
sockets == <<socketUser, rooms, messages>>

vars == <<tasks, txs, notifs, now, resp, inflight, adapter, sockets, delivered>>

\* ------------------------------------------------------------- realtime
Conns == 1..MaxConns

UserRoom(u) == <<"user", u>>
TaskRoom(t) == <<"task", t>>

\* io.to(room): the connections that joined the room
Members(room) == { c \in Conns : room \in rooms[c] }

Event(c, event, user, task, sender, content) ==
  [ conn |-> c, event |-> event, user |-> user, task |-> task, sender |-> sender,
    content |-> content ]

\* io.to(`user_${id}`).emit('newNotification', notification), which follows
\* every createNotification that returned: the records the handler has
\* added to the store go to the members of their user's room.  A handler
\* that created none emits nothing.
Notify ==
  delivered' =
    { Event(p[1], "newNotification", notifs'[p[2]].user, notifs'[p[2]].relatedTask,
            notifs'[p[2]].relatedUser, notifs'[p[2]].type) :
        p \in { q \in Conns \X ((Len(notifs) + 1)..Len(notifs')) :
                  q[1] \in Members(UserRoom(notifs'[q[2]].user)) } }

\* A JSON web token: the userId of its payload, the key that signed it and
\* whether its 24 hours have passed.
JwtTokens == [ userId : Parties, key : {"JWT_SECRET", "other"}, expired : BOOLEAN ]

\* Variant: the payload is read without checking signature and expiry.
verify_Decoded(token) == token.userId

\* jwt.verify(token, JWT_SECRET): the payload's userId; NoUser stands for
\* the error it throws on a wrong signature or an expired token.
verify(token) ==
  IF token.key = "JWT_SECRET" /\ ~token.expired THEN token.userId ELSE NoUser

\* socket.on('authenticate', token)
Authenticate(c, token) ==
  /\ LET userId == verify(token) IN
     IF userId # NoUser
     THEN /\ socketUser' = [socketUser EXCEPT ![c] = userId]
          /\ rooms' = [rooms EXCEPT ![c] = @ \cup {UserRoom(userId)}]
          /\ delivered' = {Event(c, "authenticated", userId, NoTask, NoUser, <<>>)}
     ELSE /\ delivered' = {Event(c, "authError", NoUser, NoTask, NoUser, <<>>)}
          /\ UNCHANGED <<socketUser, rooms>>
  /\ UNCHANGED <<tasks, txs, notifs, now, resp, inflight, adapter, messages>>

\* socket.on('joinTaskRoom', taskId)
JoinTaskRoom(c, taskId) ==
  /\ rooms' = [rooms EXCEPT ![c] = @ \cup {TaskRoom(taskId)}]
  /\ delivered' = {}
  /\ UNCHANGED <<tasks, txs, notifs, now, resp, inflight, adapter, socketUser, messages>>

\* socket.on('leaveTaskRoom', taskId)
LeaveTaskRoom(c, taskId) ==
  /\ rooms' = [rooms EXCEPT ![c] = @ \ {TaskRoom(taskId)}]
  /\ delivered' = {}
  /\ UNCHANGED <<tasks, txs, notifs, now, resp, inflight, adapter, socketUser, messages>>

\* socket.on('sendMessage', messageData): socket.to(room) leaves the sending
\* connection out.
SendMessage(c, messageData) ==
  /\ delivered' = { Event(d, "newMessage", NoUser, messageData.taskId, messageData.sender,
                          messageData.content) :
                      d \in Members(TaskRoom(messageData.taskId)) \ {c} }
  /\ UNCHANGED <<tasks, txs, notifs, now, resp, inflight, adapter, sockets>>

\* socket.on('disconnect'): the connection leaves its rooms; the next
\* connection that takes its place starts without userId.
Disconnect(c) ==
  /\ rooms' = [rooms EXCEPT ![c] = {}]
  /\ socketUser' = [socketUser EXCEPT ![c] = NoUser]
  /\ delivered' = {}
  /\ UNCHANGED <<tasks, txs, notifs, now, resp, inflight, adapter, messages>>

\* ------------------------------------------------------------ phone numbers
\* A phone number is a sequence of one-character strings.
PhoneError == <<"error">>

StripChars == {" ", "-", "+"}

RECURSIVE Strip(_)
Strip(p) ==
  IF p = <<>> THEN <<>>
  ELSE IF Head(p) \in StripChars THEN Strip(Tail(p))
  ELSE <<Head(p)>> \o Strip(Tail(p))

StartsWith(p, pre) ==
  /\ Len(p) >= Len(pre)
  /\ SubSeq(p, 1, Len(pre)) = pre

Digits == {"0", "1", "2", "3", "4", "5", "6", "7", "8", "9"}

formatPhoneNumber(phone) ==
  LET p == Strip(phone) IN
  IF StartsWith(p, <<"0">>) THEN <<"2", "5", "4">> \o Tail(p)
  ELSE IF StartsWith(p, <<"2", "5", "4">>) THEN p
  ELSE IF StartsWith(p, <<"7">>) \/ StartsWith(p, <<"1">>) THEN <<"2", "5", "4">> \o p
  ELSE PhoneError

\* Variant: any digit is accepted where the carrier prefix 7 or 1 stands.
kenyanPhoneRegex_AnyCarrier(p) ==
  /\ Len(p) = 12
  /\ SubSeq(p, 1, 3) = <<"2", "5", "4">>
  /\ \A i \in 4..12 : p[i] \in Digits

kenyanPhoneRegex(p) ==
  /\ Len(p) = 12
  /\ SubSeq(p, 1, 3) = <<"2", "5", "4">>
  /\ p[4] \in {"7", "1"}
  /\ \A i \in 5..12 : p[i] \in Digits

validatePhoneNumber(phone) ==
  LET formattedPhone == formatPhoneNumber(phone) IN
  IF formattedPhone = PhoneError THEN PhoneError
  ELSE IF ~kenyanPhoneRegex(formattedPhone) THEN PhoneError
  ELSE formattedPhone

Subscriber == <<"7", "1", "2", "3", "4", "5", "6", "7", "8">>
PhoneInputs ==
  { <<"0">> \o Subscriber,
    <<"2", "5", "4">> \o Subscriber,
    <<"+", "2", "5", "4">> \o Subscriber,
    Subscriber,
    <<"0", "2">> \o Tail(Subscriber),
    <<"9">> \o Subscriber }
PhoneSamples == { <<"0">> \o Subscriber, <<"9">> \o Subscriber }

\* The strings handed to validatePhoneNumber: a prefix, a leading digit and
\* a body, each drawn from well-formed and malformed samples.
PhonePrefixes ==
  { <<>>, <<"0">>, <<"2", "5", "4">>, <<"+", "2", "5", "4">>, <<"+">>,
    <<"0", "0">>, <<"2", "5", "5">>, <<"2", "5", "4", "0">> }
PhoneLeads == { <<"7">>, <<"1">>, <<"2">>, <<"0">> }
PhoneBodies ==
  { <<"1", "2", "3", "4", "5", "6", "7", "8">>,
    <<"1", "2", "3", "4", "5", "6", "7">>,
    <<"1", "2", "3", "4", "5", "6", "7", "8", "9">>,
    <<"1", "2", "-", "3", "4", "5", " ", "6", "7", "8">>,
    <<"1", "2", "3", "4", "5", "6", "7", "a">> }
PhoneNumbers ==
  PhoneInputs \cup { pre \o lead \o body :
                       pre \in PhonePrefixes, lead \in PhoneLeads, body \in PhoneBodies }

\* ------------------------------------------------------------ access token
\* Time is counted in seconds.  The gateway issues a token out of Tokens with
\* a lifetime out of ExpiresIn, shorter than, equal to and longer than the
\* safety margin.
Tokens == 1..MaxTokens
ExpiresIn == { SafetyMargin - 1, SafetyMargin, SafetyMargin + 1, SafetyMargin + 2 }

\* Variant: a token still counts as valid at the instant of its expiry.
CacheValid_AtExpiry(cache, at) == cache.token # NoToken /\ cache.expiresAt >= at

\* this.tokenCache.token && this.tokenCache.expiresAt > Date.now()
CacheValid(cache, at) == cache.token # NoToken /\ cache.expiresAt > at

\* mpesaAuth.getAccessToken(): fetchOK is the outcome of the OAuth request,
\* access_token and expires_in its response.
getAccessToken(fetchOK, access_token, expires_in) ==
  /\ IF CacheValid(tokenCache, now)
     THEN /\ tokenResult' = [token |-> tokenCache.token, fetched |-> FALSE, thrown |-> FALSE]
          /\ UNCHANGED tokenCache
     ELSE IF fetchOK
     THEN /\ tokenCache' = [token |-> access_token,
                            expiresAt |-> now + (expires_in - SafetyMargin)]
          /\ tokenResult' = [token |-> access_token, fetched |-> TRUE, thrown |-> FALSE]
     ELSE /\ tokenResult' = [token |-> NoToken, fetched |-> TRUE, thrown |-> TRUE]
          /\ UNCHANGED tokenCache
  /\ UNCHANGED <<tasks, txs, notifs, now, resp, inflight, phoneIn, phoneOut, sockets>>
  /\ Notify

\* ------------------------------------------------------------------ tasks
NewTask(owner, budget) ==
  [ postedBy |-> owner, budget |-> budget, status |-> "open",
    paymentStatus |-> "unpaid", assignedTo |-> NoUser, applicants |-> <<>>,
    completedAt |-> 0, paidAt |-> 0 ]

findById(id) == id \in 1..Len(tasks)

ApplicantSet(task) == { task.applicants[i] : i \in 1..Len(task.applicants) }

\* res.status(code).json({message}): the last response sent, with the
\* outcome of the gateway call the handler made (if any) and the Amount
\* it submitted.
Reply(op, task, code, msg) ==
  [ op |-> op, task |-> task, code |-> code, msg |-> msg, gw |-> "none", gwAmount |-> 0,
    ResultCode |-> "none" ]

ReplyGw(op, task, code, msg, gw, amt) ==
  [ op |-> op, task |-> task, code |-> code, msg |-> msg, gw |-> gw, gwAmount |-> amt,
    ResultCode |-> "none" ]

\* res.json({ResultCode, ResultDesc}): the envelope a callback endpoint sends
\* back to the gateway (HTTP 200), msg carrying ResultDesc.
Envelope(op, task, ResultCode, ResultDesc) ==
  [ op |-> op, task |-> task, code |-> 200, msg |-> ResultDesc, gw |-> "none",
    gwAmount |-> 0, ResultCode |-> ResultCode ]

\* --------------------------------------------------------- notifications
NotifValid(user, type) == user # NoUser /\ type \in NotificationTypes

\* createNotification: the record is written when validation passes and
\* the store accepts the write (ok); otherwise it throws and the caller's
\* inner try/catch logs the failure.
createNotification(user, type, relatedTask, relatedUser, ok) ==
  IF ok /\ NotifValid(user, type)
  THEN Append(notifs, [ user |-> user, type |-> type, relatedTask |-> relatedTask,
                        relatedUser |-> relatedUser, isRead |-> FALSE ])
  ELSE notifs

Room(user, type, ok) == (ok /\ NotifValid(user, type)) => Len(notifs) < MaxNotifs

\* A notification's _id is its place in the store.
\* Variant: the lookup does not ask for the caller as the target user.
OwnNotification_AnyUser(id, u) == id \in 1..Len(notifs)

\* Notification.findOne...({ _id: req.params.id, user: req.userId })
OwnNotification(id, u) == id \in 1..Len(notifs) /\ notifs[id].user = u

RemoveAt(seq, k) ==
  [ j \in 1..(Len(seq) - 1) |-> IF j < k THEN seq[j] ELSE seq[j + 1] ]

\* PATCH /api/notifications/:id/read
MarkRead(u, id) ==
  /\ IF OwnNotification(id, u)
     THEN /\ notifs' = [notifs EXCEPT ![id].isRead = TRUE]
          /\ resp' = Reply("markRead", NoTask, 200, "")
     ELSE /\ resp' = Reply("markRead", NoTask, 404, "Notification not found")
          /\ UNCHANGED notifs
  /\ UNCHANGED <<tasks, txs, now, inflight, adapter, sockets>>
  /\ Notify

\* PATCH /api/notifications/mark-all-read
MarkAllRead(u) ==
  /\ notifs' = [ i \in 1..Len(notifs) |->
                   IF notifs[i].user = u /\ ~notifs[i].isRead
                   THEN [notifs[i] EXCEPT !.isRead = TRUE]
                   ELSE notifs[i] ]
  /\ resp' = Reply("markAllRead", NoTask, 200, "All notifications marked as read")
  /\ UNCHANGED <<tasks, txs, now, inflight, adapter, sockets>>
  /\ Notify

\* DELETE /api/notifications/:id
DeleteNotification(u, id) ==
  /\ IF OwnNotification(id, u)
     THEN /\ notifs' = RemoveAt(notifs, id)
          /\ resp' = Reply("deleteNotification", NoTask, 200,
                           "Notification deleted successfully")
     ELSE /\ resp' = Reply("deleteNotification", NoTask, 404, "Notification not found")
          /\ UNCHANGED notifs
  /\ UNCHANGED <<tasks, txs, now, inflight, adapter, sockets>>
  /\ Notify

\* ------------------------------------------------------------------ Init
Init ==
  /\ tasks = <<>>
  /\ txs = <<>>
  /\ notifs = <<>>
  /\ now = 1
  /\ resp = Reply("none", NoTask, 0, "")
  /\ inflight = <<>>
  /\ socketUser = [c \in Conns |-> NoUser]
  /\ rooms = [c \in Conns |-> {}]
  /\ messages = <<>>
  /\ delivered = {}
  /\ tokenCache = [token |-> NoToken, expiresAt |-> 0]
  /\ tokenResult = [token |-> NoToken, fetched |-> FALSE, thrown |-> FALSE]
  /\ phoneIn = <<>>
  /\ phoneOut = <<>>

\* Date.now() advances between requests.
Tick ==
  /\ now < MaxClock
  /\ now' = now + 1
  /\ UNCHANGED <<tasks, txs, notifs, resp, inflight, adapter, sockets>>
  /\ Notify

\* POST /api/tasks
CreateTask(u, budget) ==
  /\ IF budget = 0
     THEN /\ resp' = Reply("create", NoTask, 400, "All fields are required")
          /\ UNCHANGED tasks
     ELSE /\ Len(tasks) < MaxTasks
          /\ tasks' = Append(tasks, NewTask(u, budget))
          /\ resp' = Reply("create", Len(tasks) + 1, 201, "")
  /\ UNCHANGED <<txs, notifs, now, inflight, adapter, sockets>>
  /\ Notify

\* Variant: the duplicate-application check is missing.
AlreadyApplied_Skipped(task, u) == FALSE

AlreadyApplied(task, u) == \E i \in 1..Len(task.applicants) : task.applicants[i] = u

\* POST /api/tasks/:id/apply
Apply(u, t, OK) ==
  /\ IF ~findById(t)
     THEN /\ resp' = Reply("apply", t, 404, "Task not found")
          /\ UNCHANGED <<tasks, notifs>>
     ELSE IF tasks[t].postedBy = u
     THEN /\ resp' = Reply("apply", t, 400, "You cannot apply to your own task")
          /\ UNCHANGED <<tasks, notifs>>
     ELSE IF AlreadyApplied(tasks[t], u)
     THEN /\ resp' = Reply("apply", t, 400, "You already applied to this task")
          /\ UNCHANGED <<tasks, notifs>>
     ELSE /\ tasks' = [tasks EXCEPT ![t].applicants = Append(@, u)]
          /\ \E ok \in OK :
               /\ Room(tasks[t].postedBy, "application", ok)
               /\ notifs' = createNotification(tasks[t].postedBy, "application", t, u, ok)
          /\ resp' = Reply("apply", t, 200, "Applied successfully")
  /\ UNCHANGED <<txs, now, inflight, adapter, sockets>>
  /\ Notify

\* POST /api/tasks/:id/assign
Assign(u, t, applicantId, OK) ==
  /\ IF ~findById(t)
     THEN /\ resp' = Reply("assign", t, 404, "Task not found")
          /\ UNCHANGED <<tasks, notifs>>
     ELSE IF tasks[t].postedBy # u
     THEN /\ resp' = Reply("assign", t, 403, "Not authorized")
          /\ UNCHANGED <<tasks, notifs>>
     ELSE /\ tasks' = [tasks EXCEPT ![t].assignedTo = applicantId,
                                    ![t].status = "in-progress"]
          /\ \E ok \in OK :
               /\ Room(applicantId, "assignment", ok)
               /\ notifs' = createNotification(applicantId, "assignment", t, u, ok)
          /\ resp' = Reply("assign", t, 200, "Task assigned successfully")
  /\ UNCHANGED <<txs, now, inflight, adapter, sockets>>
  /\ Notify

\* PATCH /api/tasks/:id/complete
\* task.assignedTo.toString() on a task without assignee throws a TypeError,
\* which the outer catch turns into a 500.
Complete(u, t, OK) ==
  /\ IF ~findById(t)
     THEN /\ resp' = Reply("complete", t, 404, "Task not found")
          /\ UNCHANGED <<tasks, notifs>>
     ELSE IF tasks[t].assignedTo = NoUser
     THEN /\ resp' = Reply("complete", t, 500, "Server error completing task")
          /\ UNCHANGED <<tasks, notifs>>
     ELSE IF tasks[t].assignedTo # u
     THEN /\ resp' = Reply("complete", t, 403, "Only the assigned user can complete this task")
          /\ UNCHANGED <<tasks, notifs>>
     ELSE /\ tasks' = [tasks EXCEPT ![t].status = "completed",
                                    ![t].completedAt = now]
          /\ \E ok \in OK :
               /\ Room(tasks[t].postedBy, "completion", ok)
               /\ notifs' = createNotification(tasks[t].postedBy, "completion", t, u, ok)
          /\ resp' = Reply("complete", t, 200, "Task marked as completed")
  /\ UNCHANGED <<txs, now, inflight, adapter, sockets>>
  /\ Notify

\* Variant: only an open task is refused, an in-progress one passes.
NotCompleted_OpenOnly(task) == task.status = "open"

NotCompleted(task) == task.status # "completed"

\* Variant: the already-paid check is missing.
AlreadyPaid_Skipped(task) == FALSE

AlreadyPaid(task) == task.paymentStatus = "paid"

\* Variant: the payment marks are not persisted.
markPaid_Unsaved(task, at) == task

\* Variant: the pay route also advances the status to paid.
markPaid_StatusPaid(task, at) ==
  [task EXCEPT !.paymentStatus = "paid", !.paidAt = at, !.status = "paid"]

\* task.paymentStatus = 'paid'; task.paidAt = new Date()
markPaid(task, at) == [task EXCEPT !.paymentStatus = "paid", !.paidAt = at]

\* PATCH /api/tasks/:id/pay
Pay(u, t, OK) ==
  /\ IF ~findById(t)
     THEN /\ resp' = Reply("pay", t, 404, "Task not found")
          /\ UNCHANGED <<tasks, notifs>>
     ELSE IF tasks[t].postedBy # u
     THEN /\ resp' = Reply("pay", t, 403, "Only the task owner can process payment")
          /\ UNCHANGED <<tasks, notifs>>
     ELSE IF NotCompleted(tasks[t])
     THEN /\ resp' = Reply("pay", t, 400, "Task must be completed before payment")
          /\ UNCHANGED <<tasks, notifs>>
     ELSE IF AlreadyPaid(tasks[t])
     THEN /\ resp' = Reply("pay", t, 400, "Task already paid")
          /\ UNCHANGED <<tasks, notifs>>
     ELSE /\ tasks' = [tasks EXCEPT ![t] = markPaid(@, now)]
          /\ \E ok \in OK :
               /\ Room(tasks[t].assignedTo, "payment", ok)
               /\ notifs' = createNotification(tasks[t].assignedTo, "payment", t, u, ok)
          /\ resp' = Reply("pay", t, 200, "Payment processed successfully")
  /\ UNCHANGED <<txs, now, inflight, adapter, sockets>>
  /\ Notify

\* ------------------------------------------- task requests that overlap
\* A task route reads the document (await Task.findById), runs its checks,
\* awaits User.findById and only then sets the fields and saves: between
\* the read and the save other requests run.  A request that passed its
\* checks waits in inflight with the document it loaded.

\* Variant: the save is refused when the stored document is no longer the
\* one that was loaded.
saveConflict_Versioned(stored, loaded) == stored # loaded

\* await task.save(): no version check stands in the way of the write (the
\* routes change no array, so Mongoose adds no __v condition).
saveConflict(stored, loaded) == FALSE

\* What save() leaves in the store: the paths that were set to a new value
\* on the loaded document are written, the others keep the stored value.
save(stored, loaded, doc) ==
  [ f \in DOMAIN stored |-> IF doc[f] # loaded[f] THEN doc[f] ELSE stored[f] ]

Leave(k) ==
  [ j \in 1..(Len(inflight) - 1) |-> IF j < k THEN inflight[j] ELSE inflight[j + 1] ]

\* POST /api/tasks/:id/assign up to the await that follows the checks
AssignBegin(u, t, applicantId) ==
  /\ IF ~findById(t)
     THEN /\ resp' = Reply("assign", t, 404, "Task not found")
          /\ UNCHANGED inflight
     ELSE IF tasks[t].postedBy # u
     THEN /\ resp' = Reply("assign", t, 403, "Not authorized")
          /\ UNCHANGED inflight
     ELSE /\ Len(inflight) < MaxInFlight
          /\ inflight' = Append(inflight, [ op |-> "assign", task |-> t, user |-> u,
                                            applicantId |-> applicantId,
                                            loaded |-> tasks[t] ])
          /\ UNCHANGED resp
  /\ UNCHANGED <<tasks, txs, notifs, now, adapter, sockets>>
  /\ Notify

\* The rest of the assign handler for the k-th request in flight
AssignFinish(k, OK) ==
  /\ k \in 1..Len(inflight)
  /\ inflight[k].op = "assign"
  /\ LET r == inflight[k]
         doc == [r.loaded EXCEPT !.assignedTo = r.applicantId, !.status = "in-progress"]
     IN IF saveConflict(tasks[r.task], r.loaded)
        THEN /\ resp' = Reply("assign", r.task, 500, "Server error assigning task")
             /\ UNCHANGED <<tasks, notifs>>
        ELSE /\ tasks' = [tasks EXCEPT ![r.task] = save(@, r.loaded, doc)]
             /\ \E ok \in OK :
                  /\ Room(r.applicantId, "assignment", ok)
                  /\ notifs' = createNotification(r.applicantId, "assignment", r.task,
                                                  r.user, ok)
             /\ resp' = Reply("assign", r.task, 200, "Task assigned successfully")
  /\ inflight' = Leave(k)
  /\ UNCHANGED <<txs, now, adapter, sockets>>
  /\ Notify

\* PATCH /api/tasks/:id/pay up to the await that follows the checks
PayBegin(u, t) ==
  /\ IF ~findById(t)
     THEN /\ resp' = Reply("pay", t, 404, "Task not found")
          /\ UNCHANGED inflight
     ELSE IF tasks[t].postedBy # u
     THEN /\ resp' = Reply("pay", t, 403, "Only the task owner can process payment")
          /\ UNCHANGED inflight
     ELSE IF NotCompleted(tasks[t])
     THEN /\ resp' = Reply("pay", t, 400, "Task must be completed before payment")
          /\ UNCHANGED inflight
     ELSE IF AlreadyPaid(tasks[t])
     THEN /\ resp' = Reply("pay", t, 400, "Task already paid")
          /\ UNCHANGED inflight
     ELSE /\ Len(inflight) < MaxInFlight
          /\ inflight' = Append(inflight, [ op |-> "pay", task |-> t, user |-> u,
                                            applicantId |-> NoUser,
                                            loaded |-> tasks[t] ])
          /\ UNCHANGED resp
  /\ UNCHANGED <<tasks, txs, notifs, now, adapter, sockets>>
  /\ Notify

\* The rest of the pay handler for the k-th request in flight
PayFinish(k, OK) ==
  /\ k \in 1..Len(inflight)
  /\ inflight[k].op = "pay"
  /\ LET r == inflight[k]
         doc == markPaid(r.loaded, now)
     IN IF saveConflict(tasks[r.task], r.loaded)
        THEN /\ resp' = Reply("pay", r.task, 500, "Server error processing payment")
             /\ UNCHANGED <<tasks, notifs>>
        ELSE /\ tasks' = [tasks EXCEPT ![r.task] = save(@, r.loaded, doc)]
             /\ \E ok \in OK :
                  /\ Room(r.loaded.assignedTo, "payment", ok)
                  /\ notifs' = createNotification(r.loaded.assignedTo, "payment", r.task,
                                                  r.user, ok)
             /\ resp' = Reply("pay", r.task, 200, "Payment processed successfully")
  /\ inflight' = Leave(k)
  /\ UNCHANGED <<txs, now, adapter, sockets>>
  /\ Notify

\* -------------------------------------------------------------- messages
\* A message's content is a sequence of one-character strings.
RECURSIVE trimStart(_)
trimStart(content) ==
  IF content # <<>> /\ Head(content) = " " THEN trimStart(Tail(content)) ELSE content

RECURSIVE trimEnd(_)
trimEnd(content) ==
  IF content # <<>> /\ content[Len(content)] = " "
  THEN trimEnd(SubSeq(content, 1, Len(content) - 1))
  ELSE content

\* content.trim()
trim(content) == trimEnd(trimStart(content))

Contents == { <<>>, <<" ">>, <<"h", " ">> }

\* isOwner || isAssigned
MayMessage(task, userId) ==
  task.postedBy = userId \/ (task.assignedTo # NoUser /\ task.assignedTo = userId)

\* GET /api/messages/:taskId
GetMessages(u, taskId) ==
  /\ resp' = IF ~findById(taskId)
             THEN Reply("getMessages", taskId, 404, "Task not found")
             ELSE IF ~MayMessage(tasks[taskId], u)
             THEN Reply("getMessages", taskId, 403,
                        "Not authorized to view messages for this task")
             ELSE Reply("getMessages", taskId, 200, "")
  /\ delivered' = {}
  /\ UNCHANGED <<tasks, txs, notifs, now, inflight, adapter, sockets>>

\* POST /api/messages; io.to(room) reaches every member of the task's room.
PostMessage(u, taskId, content) ==
  /\ IF trim(content) = <<>>
     THEN /\ resp' = Reply("postMessage", taskId, 400, "Message content is required")
          /\ delivered' = {}
          /\ UNCHANGED messages
     ELSE IF taskId = NoTask
     THEN /\ resp' = Reply("postMessage", taskId, 400, "Task ID is required")
          /\ delivered' = {}
          /\ UNCHANGED messages
     ELSE IF ~findById(taskId)
     THEN /\ resp' = Reply("postMessage", taskId, 404, "Task not found")
          /\ delivered' = {}
          /\ UNCHANGED messages
     ELSE IF ~MayMessage(tasks[taskId], u)
     THEN /\ resp' = Reply("postMessage", taskId, 403,
                           "Not authorized to send messages for this task")
          /\ delivered' = {}
          /\ UNCHANGED messages
     ELSE /\ Len(messages) < MaxMessages
          /\ messages' = Append(messages, [ taskId |-> taskId, sender |-> u,
                                            content |-> trim(content) ])
          /\ delivered' = { Event(d, "newMessage", NoUser, taskId, u, trim(content)) :
                              d \in Members(TaskRoom(taskId)) }
          /\ resp' = Reply("postMessage", taskId, 201, "")
  /\ UNCHANGED <<tasks, txs, notifs, now, inflight, adapter, socketUser, rooms>>

\* --------------------------------------------------------------- ledger
\* Variant: a 20% commission.
Commission_Fifth(amount) == amount \div 5

Commission(amount) == amount \div CommissionDivisor

\* Math.round of an amount carried in tenths of a shilling (half rounds up).
MathRound(x) == ((x + 5) \div 10) * 10

\* Variant: the record is created in a terminal status.
NewTx_Failed(type, amount, commission, netAmount, phone, from, to, task) ==
  [ transactionType |-> type, amount |-> amount, commission |-> commission,
    netAmount |-> netAmount, phoneNumber |-> phone, fromUser |-> from,
    toUser |-> to, task |-> task, status |-> "FAILED",
    conversationId |-> NoConv, originatorConversationId |-> NoConv,
    mpesaTransactionId |-> NoTransID, callbackReceived |-> FALSE ]

NewTx(type, amount, commission, netAmount, phone, from, to, task) ==
  [ transactionType |-> type, amount |-> amount, commission |-> commission,
    netAmount |-> netAmount, phoneNumber |-> phone, fromUser |-> from,
    toUser |-> to, task |-> task, status |-> "PENDING",
    conversationId |-> NoConv, originatorConversationId |-> NoConv,
    mpesaTransactionId |-> NoTransID, callbackReceived |-> FALSE ]

\* transactionSchema.pre('save'): fills commission and netAmount of a payout
\* that has an amount but no netAmount yet.
preSave(tx) ==
  IF tx.transactionType = "B2C" /\ tx.amount # 0 /\ tx.netAmount = 0
  THEN [tx EXCEPT !.commission = Commission(tx.amount),
                  !.netAmount = tx.amount - Commission(tx.amount)]
  ELSE tx

First(S) == CHOOSE i \in S : \A j \in S : i <= j

\* Transaction.findOne(filter): the first matching record in insertion order.
PendingC2B(taskId) ==
  { i \in 1..Len(txs) : /\ txs[i].task = taskId
                        /\ txs[i].transactionType = "C2B"
                        /\ txs[i].status = "PENDING" }

\* Variant: a collection record of any status passes for a confirmed one.
CompletedC2B_AnyStatus(taskId) ==
  { i \in 1..Len(txs) : /\ txs[i].task = taskId
                        /\ txs[i].transactionType = "C2B" }

\* Variant: the lookup asks for a pending collection record.
CompletedC2B_Pending(taskId) == PendingC2B(taskId)

CompletedC2B(taskId) ==
  { i \in 1..Len(txs) : /\ txs[i].task = taskId
                        /\ txs[i].transactionType = "C2B"
                        /\ txs[i].status = "COMPLETED" }

\* Variant: only a COMPLETED payout blocks a new one.
ExistingB2C_CompletedOnly(taskId) ==
  { i \in 1..Len(txs) : /\ txs[i].task = taskId
                        /\ txs[i].transactionType = "B2C"
                        /\ txs[i].status = "COMPLETED" }

ExistingB2C(taskId) ==
  { i \in 1..Len(txs) : /\ txs[i].task = taskId
                        /\ txs[i].transactionType = "B2C"
                        /\ txs[i].status \in {"PENDING", "COMPLETED"} }

ResultMatch(conv, orig) ==
  { i \in 1..Len(txs) : /\ txs[i].transactionType = "B2C"
                        /\ \/ txs[i].conversationId = conv
                           \/ txs[i].originatorConversationId = orig }

TimeoutMatch(conv, orig) ==
  { i \in ResultMatch(conv, orig) : txs[i].status = "PENDING" }

GatewayOutcomes == {"ok", "tokenfail", "callfail"}
ResultCodes == {0, 1}

\* POST /api/mpesa/simulate-c2b
SimulateC2B(u, t, phone, amount) ==
  /\ IF amount = 0
     THEN /\ resp' = Reply("simulateC2B", t, 400, "Task ID, phone number, and amount are required")
          /\ UNCHANGED txs
     ELSE IF ~findById(t)
     THEN /\ resp' = Reply("simulateC2B", t, 404, "Task not found")
          /\ UNCHANGED txs
     ELSE IF tasks[t].postedBy # u
     THEN /\ resp' = Reply("simulateC2B", t, 403, "Only task owner can initiate payment")
          /\ UNCHANGED txs
     ELSE IF validatePhoneNumber(phone) = PhoneError
     THEN /\ resp' = Reply("simulateC2B", t, 500, "Failed to simulate C2B payment")
          /\ UNCHANGED txs
     ELSE LET tx == preSave(NewTx("C2B", amount, 0, 0, validatePhoneNumber(phone),
                                  u, NoUser, t))
              id == Len(txs) + 1
          IN /\ Len(txs) < MaxTxs
             /\ \E gw \in GatewayOutcomes :
                  IF gw = "ok"
                  THEN /\ txs' = Append(txs, preSave([tx EXCEPT !.conversationId = id,
                                                               !.originatorConversationId = id]))
                       /\ resp' = ReplyGw("simulateC2B", t, 200,
                                          "C2B payment simulated successfully", "sent", amount)
                  ELSE /\ txs' = Append(txs, tx)
                       /\ resp' = ReplyGw("simulateC2B", t, 500, "Failed to simulate C2B payment",
                                          gw, IF gw = "callfail" THEN amount ELSE 0)
  /\ UNCHANGED <<tasks, notifs, now, inflight, adapter, sockets>>
  /\ Notify

\* POST /api/mpesa/confirmation (gateway callback, BillRefNumber = TASK_<taskId>)
\* TransID is written to the record that is completed; no lookup reads it and
\* the schema puts no unique index on it.
Confirmation(taskId, TransID, OK) ==
  /\ IF taskId = NoTask \/ PendingC2B(taskId) = {}
     THEN UNCHANGED <<tasks, txs, notifs>>
     ELSE LET i == First(PendingC2B(taskId)) IN
          /\ txs' = [txs EXCEPT ![i] = preSave([@ EXCEPT !.status = "COMPLETED",
                                                        !.mpesaTransactionId = TransID,
                                                        !.callbackReceived = TRUE])]
          /\ IF findById(taskId)
             THEN /\ tasks' = [tasks EXCEPT ![taskId].paymentStatus = "paid",
                                            ![taskId].paidAt = now]
                  /\ \E ok \in OK :
                       /\ Room(txs[i].fromUser, "payment", ok)
                       /\ notifs' = createNotification(txs[i].fromUser, "payment", taskId,
                                                       NoUser, ok)
             ELSE UNCHANGED <<tasks, notifs>>
  /\ resp' = Envelope("confirmation", taskId, "0", "Success")
  /\ UNCHANGED <<now, inflight, adapter, sockets>>
  /\ Notify

\* POST /api/mpesa/validation (gateway callback, BillRefNumber = TASK_<taskId>)
\* dbOK: Task.findById answers; otherwise it throws (malformed id, store
\* unreachable) and the catch block answers.
Validation(taskId, TransAmount, dbOK) ==
  /\ resp' = IF taskId = NoTask
             THEN Envelope("validation", taskId, "C2B00011", "Invalid Bill Reference")
             ELSE IF ~dbOK
             THEN Envelope("validation", taskId, "C2B00014", "Validation failed")
             ELSE IF ~findById(taskId)
             THEN Envelope("validation", taskId, "C2B00012", "Task not found")
             ELSE IF TransAmount # tasks[taskId].budget
             THEN Envelope("validation", taskId, "C2B00013", "Amount does not match task budget")
             ELSE Envelope("validation", taskId, "0", "Success")
  /\ UNCHANGED <<tasks, txs, notifs, now, inflight, adapter, sockets>>
  /\ Notify

\* POST /api/mpesa/b2c-payment
B2CPayment(u, t, phone) ==
  /\ IF ~findById(t)
     THEN /\ resp' = Reply("b2cPayment", t, 404, "Task not found")
          /\ UNCHANGED txs
     ELSE IF tasks[t].postedBy # u
     THEN /\ resp' = Reply("b2cPayment", t, 403, "Only task owner can trigger payment")
          /\ UNCHANGED txs
     ELSE IF NotCompleted(tasks[t])
     THEN /\ resp' = Reply("b2cPayment", t, 400, "Task must be completed before payment")
          /\ UNCHANGED txs
     ELSE IF tasks[t].assignedTo = NoUser
     THEN /\ resp' = Reply("b2cPayment", t, 400, "Task has no assigned user to pay")
          /\ UNCHANGED txs
     ELSE IF CompletedC2B(t) = {}
     THEN /\ resp' = Reply("b2cPayment", t, 400, "No confirmed payment found for this task")
          /\ UNCHANGED txs
     ELSE IF ExistingB2C(t) # {}
     THEN /\ resp' = Reply("b2cPayment", t, 400, "Payment already processed for this task")
          /\ UNCHANGED txs
     ELSE IF validatePhoneNumber(phone) = PhoneError
     THEN /\ resp' = Reply("b2cPayment", t, 500, "Failed to initiate B2C payment")
          /\ UNCHANGED txs
     ELSE LET totalAmount == txs[First(CompletedC2B(t))].amount
              commission == Commission(totalAmount)
              payoutAmount == totalAmount - commission
              tx == preSave(NewTx("B2C", totalAmount, commission, payoutAmount,
                                  validatePhoneNumber(phone), u, tasks[t].assignedTo, t))
              id == Len(txs) + 1
          IN /\ Len(txs) < MaxTxs
             /\ \E gw \in GatewayOutcomes :
                  IF gw = "ok"
                  THEN /\ txs' = Append(txs, preSave([tx EXCEPT !.conversationId = id,
                                                               !.originatorConversationId = id]))
                       /\ resp' = ReplyGw("b2cPayment", t, 200,
                                          "B2C payment initiated successfully", "sent",
                                          MathRound(payoutAmount))
                  ELSE /\ txs' = Append(txs, tx)
                       /\ resp' = ReplyGw("b2cPayment", t, 500, "Failed to initiate B2C payment",
                                          gw, IF gw = "callfail" THEN MathRound(payoutAmount) ELSE 0)
  /\ UNCHANGED <<tasks, notifs, now, inflight, adapter, sockets>>
  /\ Notify

\* POST /api/mpesa/b2c-payment as the server runs it when requests overlap:
\* every await is a point where another request's handler may run.  The
\* first part runs from the top to the existingB2C check and
\* validatePhoneNumber, and leaves the request in flight; the ledger has
\* room for one record more than in the one-at-a-time runs.
MaxLedger == MaxTxs + 1

B2CPaymentBegin(u, t, phone) ==
  /\ IF ~findById(t)
     THEN /\ resp' = Reply("b2cPayment", t, 404, "Task not found")
          /\ UNCHANGED inflight
     ELSE IF tasks[t].postedBy # u
     THEN /\ resp' = Reply("b2cPayment", t, 403, "Only task owner can trigger payment")
          /\ UNCHANGED inflight
     ELSE IF NotCompleted(tasks[t])
     THEN /\ resp' = Reply("b2cPayment", t, 400, "Task must be completed before payment")
          /\ UNCHANGED inflight
     ELSE IF tasks[t].assignedTo = NoUser
     THEN /\ resp' = Reply("b2cPayment", t, 400, "Task has no assigned user to pay")
          /\ UNCHANGED inflight
     ELSE IF CompletedC2B(t) = {}
     THEN /\ resp' = Reply("b2cPayment", t, 400, "No confirmed payment found for this task")
          /\ UNCHANGED inflight
     ELSE IF ExistingB2C(t) # {}
     THEN /\ resp' = Reply("b2cPayment", t, 400, "Payment already processed for this task")
          /\ UNCHANGED inflight
     ELSE IF validatePhoneNumber(phone) = PhoneError
     THEN /\ resp' = Reply("b2cPayment", t, 500, "Failed to initiate B2C payment")
          /\ UNCHANGED inflight
     ELSE /\ Len(inflight) < MaxInFlight
          /\ Len(txs) + Len(inflight) < MaxLedger
          /\ inflight' = Append(inflight,
                 [ task |-> t, fromUser |-> u, toUser |-> tasks[t].assignedTo,
                   totalAmount |-> txs[First(CompletedC2B(t))].amount,
                   formattedPhone |-> validatePhoneNumber(phone) ])
          /\ UNCHANGED resp
  /\ UNCHANGED <<tasks, txs, notifs, now, adapter, sockets>>
  /\ Notify

\* The rest of the handler for the k-th request in flight: the record is
\* saved PENDING, the gateway is called and the response is sent.
B2CPaymentFinish(k) ==
  /\ k \in 1..Len(inflight)
  /\ LET r == inflight[k]
         commission == Commission(r.totalAmount)
         payoutAmount == r.totalAmount - commission
         tx == preSave(NewTx("B2C", r.totalAmount, commission, payoutAmount,
                             r.formattedPhone, r.fromUser, r.toUser, r.task))
         id == Len(txs) + 1
     IN \E gw \in GatewayOutcomes :
          IF gw = "ok"
          THEN /\ txs' = Append(txs, preSave([tx EXCEPT !.conversationId = id,
                                                       !.originatorConversationId = id]))
               /\ resp' = ReplyGw("b2cPayment", r.task, 200,
                                  "B2C payment initiated successfully", "sent",
                                  MathRound(payoutAmount))
          ELSE /\ txs' = Append(txs, tx)
               /\ resp' = ReplyGw("b2cPayment", r.task, 500, "Failed to initiate B2C payment",
                                  gw, IF gw = "callfail" THEN MathRound(payoutAmount) ELSE 0)
  /\ inflight' = [ j \in 1..(Len(inflight) - 1) |->
                     IF j < k THEN inflight[j] ELSE inflight[j + 1] ]
  /\ UNCHANGED <<tasks, notifs, now, adapter, sockets>>
  /\ Notify

\* Variant: every result counts as a success.
Succeeded_Always(ResultCode) == TRUE

\* ResultCode === 0
Succeeded(ResultCode) == ResultCode = 0

\* POST /api/mpesa/b2c-result (gateway callback); the results carry no
\* TransactionReceipt parameter, so the record's transaction id is left alone.
B2CResult(conv, orig, ResultCode, OK) ==
  /\ IF ResultMatch(conv, orig) = {}
     THEN UNCHANGED <<tasks, txs, notifs>>
     ELSE LET i == First(ResultMatch(conv, orig)) IN
          IF Succeeded(ResultCode)
          THEN /\ txs' = [txs EXCEPT ![i] = preSave([@ EXCEPT !.status = "COMPLETED",
                                                             !.callbackReceived = TRUE])]
               /\ tasks' = IF findById(txs[i].task)
                           THEN [tasks EXCEPT ![txs[i].task].paymentStatus = "paid",
                                              ![txs[i].task].status = "paid"]
                           ELSE tasks
               /\ \E ok \in OK :
                    /\ Room(txs[i].toUser, "payment", ok)
                    /\ notifs' = createNotification(txs[i].toUser, "payment", txs[i].task,
                                                    NoUser, ok)
          ELSE /\ txs' = [txs EXCEPT ![i] = preSave([@ EXCEPT !.status = "FAILED",
                                                             !.callbackReceived = TRUE])]
               /\ UNCHANGED <<tasks, notifs>>
  /\ resp' = Envelope("b2cResult", NoTask, "0", "Success")
  /\ UNCHANGED <<now, inflight, adapter, sockets>>
  /\ Notify

\* POST /api/mpesa/b2c-timeout (gateway callback)
B2CTimeout(conv, orig, OK) ==
  /\ IF TimeoutMatch(conv, orig) = {}
     THEN UNCHANGED <<txs, notifs>>
     ELSE LET i == First(TimeoutMatch(conv, orig)) IN
          /\ txs' = [txs EXCEPT ![i] = preSave([@ EXCEPT !.status = "TIMEOUT",
                                                        !.callbackReceived = TRUE])]
          /\ \E ok \in OK :
               /\ Room(txs[i].fromUser, "error", ok)
               /\ notifs' = createNotification(txs[i].fromUser, "error", txs[i].task,
                                               NoUser, ok)
  /\ resp' = Envelope("b2cTimeout", NoTask, "0", "Success")
  /\ UNCHANGED <<tasks, now, inflight, adapter, sockets>>
  /\ Notify

\* Requests of the task routes, issued by the users in U; OK holds the
\* possible outcomes of the notification write.
Lifecycle(U, OK, PayOK) ==
  \/ \E u \in Posters, b \in Budgets \cup {0} : CreateTask(u, b)
  \/ \E u \in U, t \in TaskIds : Apply(u, t, OK)
  \/ \E u \in U, t \in TaskIds, a \in U \cup {NoUser} : Assign(u, t, a, OK)
  \/ \E u \in U, t \in TaskIds : Complete(u, t, OK)
  \/ \E u \in U, t \in TaskIds : Pay(u, t, PayOK)

\* Requests of the M-Pesa routes issued by the users in U, and the gateway's
\* callbacks.  The gateway echoes the identifiers it issued, so a callback
\* carries the same number as ConversationID and OriginatorConversationID.
Settlement(U, OK) ==
  \/ \E u \in U, t \in TaskIds, p \in PhoneSamples, a \in Amounts \cup {0} :
        SimulateC2B(u, t, p, a)
  \/ \E t \in TaskIds \cup {NoTask} : Confirmation(t, First(TransIDs), OK)
  \/ \E u \in U, t \in TaskIds, p \in PhoneSamples : B2CPayment(u, t, p)
  \/ \E c \in ConvIds, rc \in ResultCodes : B2CResult(c, c, rc, OK)
  \/ \E c \in ConvIds : B2CTimeout(c, c, OK)

\* Task lifecycle alone, every user calling every route, with time passing.
NextTasks == Tick \/ Lifecycle(Users, BOOLEAN, BOOLEAN)

SpecTasks == Init /\ [][NextTasks]_vars

\* Lifecycle and settlement together, requests issued by the task's owner
\* and one other user.  No handler reads the notification store, so the
\* notification writes of apply, assign and complete are held failing here
\* and the store has room for the notifications of the pay route and of the
\* gateway callbacks.
Next == Lifecycle(Parties, {FALSE}, BOOLEAN) \/ Settlement(Parties, BOOLEAN)

Spec == Init /\ [][Next]_vars

\* The gateway's callbacks in any order and repetition, around one task that
\* its owner has assigned, the worker completes and the owner settles.
NextCallbacks ==
  \/ \E u \in Posters, b \in Budgets : CreateTask(u, b)
  \/ \E u \in Posters, t \in TaskIds, a \in Parties \ Posters : Assign(u, t, a, {FALSE})
  \/ \E u \in Parties \ Posters, t \in TaskIds : Complete(u, t, {FALSE})
  \/ \E u \in Posters, t \in TaskIds, p \in PhoneSamples, a \in Amounts :
        SimulateC2B(u, t, p, a)
  \/ \E u \in Posters, t \in TaskIds, p \in PhoneSamples : B2CPayment(u, t, p)
  \/ \E t \in TaskIds \cup {NoTask}, id \in TransIDs : Confirmation(t, id, BOOLEAN)
  \/ \E t \in TaskIds \cup {NoTask}, a \in Amounts, dbOK \in BOOLEAN : Validation(t, a, dbOK)
  \/ \E c \in ConvIds, rc \in ResultCodes : B2CResult(c, c, rc, BOOLEAN)
  \/ \E c \in ConvIds : B2CTimeout(c, c, BOOLEAN)

SpecCallbacks == Init /\ [][NextCallbacks]_vars

\* Overlapping payout requests: the owner's b2c-payment requests interleave
\* at their awaits with each other and with the gateway's callbacks.
NextRace ==
  \/ \E u \in Posters, b \in Budgets : CreateTask(u, b)
  \/ \E u \in Posters, t \in TaskIds, a \in Parties \ Posters : Assign(u, t, a, {FALSE})
  \/ \E u \in Parties \ Posters, t \in TaskIds : Complete(u, t, {FALSE})
  \/ \E u \in Posters, t \in TaskIds, p \in PhoneSamples, a \in Budgets :
        SimulateC2B(u, t, p, a)
  \/ \E t \in TaskIds : Confirmation(t, First(TransIDs), {FALSE})
  \/ \E u \in Parties, t \in TaskIds, p \in PhoneSamples : B2CPaymentBegin(u, t, p)
  \/ \E k \in 1..MaxInFlight : B2CPaymentFinish(k)
  \/ \E c \in 1..MaxLedger, rc \in ResultCodes : B2CResult(c, c, rc, {FALSE})
  \/ \E c \in 1..MaxLedger : B2CTimeout(c, c, {FALSE})

SpecRace == Init /\ [][NextRace]_vars

\* Overlapping assign and pay requests on the task routes.
NextTaskRace ==
  \/ \E u \in Posters, b \in Budgets : CreateTask(u, b)
  \/ \E u \in Parties, t \in TaskIds, a \in Users \ Posters : AssignBegin(u, t, a)
  \/ \E k \in 1..MaxInFlight : AssignFinish(k, {FALSE})
  \/ \E u \in Users \ Posters, t \in TaskIds : Complete(u, t, {FALSE})
  \/ \E u \in Parties, t \in TaskIds : PayBegin(u, t)
  \/ \E k \in 1..MaxInFlight : PayFinish(k, BOOLEAN)

SpecTaskRace == Init /\ [][NextTaskRace]_vars

\* What a client may put into a sendMessage event.
MessageData == [ taskId : TaskIds, sender : Users, content : {<<"h">>} ]

\* The realtime server next to the routes that feed it: connections
\* authenticate, join and leave task rooms, send and disconnect, while
\* tasks are created and assigned and messages are posted.
NextSockets ==
  \/ \E u \in Posters, b \in Budgets : CreateTask(u, b)
  \/ \E u \in Posters, t \in TaskIds, a \in Parties \ Posters : Assign(u, t, a, {TRUE})
  \/ \E c \in Conns, token \in JwtTokens : Authenticate(c, token)
  \/ \E c \in Conns, t \in TaskIds : JoinTaskRoom(c, t)
  \/ \E c \in Conns, t \in TaskIds : LeaveTaskRoom(c, t)
  \/ \E c \in Conns, m \in MessageData : SendMessage(c, m)
  \/ \E c \in Conns : Disconnect(c)
  \/ \E u \in Users, t \in TaskIds : GetMessages(u, t)
  \/ \E u \in Users, t \in TaskIds \cup {NoTask}, m \in Contents : PostMessage(u, t, m)

SpecSockets == Init /\ [][NextSockets]_vars

\* Payout requests served one at a time (a request is begun only when none
\* is in flight), with room in the ledger for a second payout of the task
\* and with the gateway's result and timeout callbacks.
NextPayouts ==
  \/ \E u \in Posters, b \in Budgets : CreateTask(u, b)
  \/ \E u \in Posters, t \in TaskIds, a \in Parties \ Posters : Assign(u, t, a, {FALSE})
  \/ \E u \in Parties \ Posters, t \in TaskIds : Complete(u, t, {FALSE})
  \/ \E u \in Posters, t \in TaskIds, p \in PhoneSamples, a \in Budgets :
        SimulateC2B(u, t, p, a)
  \/ \E t \in TaskIds : Confirmation(t, First(TransIDs), {FALSE})
  \/ \E u \in Parties, t \in TaskIds, p \in PhoneSamples :
        Len(inflight) = 0 /\ B2CPaymentBegin(u, t, p)
  \/ \E k \in 1..MaxInFlight : B2CPaymentFinish(k)
  \/ \E c \in 1..MaxLedger, rc \in ResultCodes : B2CResult(c, c, rc, BOOLEAN)
  \/ \E c \in 1..MaxLedger : B2CTimeout(c, c, {FALSE})

SpecPayouts == Init /\ [][NextPayouts]_vars

\* validatePhoneNumber on its own: a caller hands it one of the sample
\* strings, and may hand its result back to it.
InitPhone ==
  /\ tasks = <<>>
  /\ txs = <<>>
  /\ notifs = <<>>
  /\ now = 1
  /\ resp = Reply("none", NoTask, 0, "")
  /\ inflight = <<>>
  /\ socketUser = [c \in Conns |-> NoUser]
  /\ rooms = [c \in Conns |-> {}]
  /\ messages = <<>>
  /\ delivered = {}
  /\ tokenCache = [token |-> NoToken, expiresAt |-> 0]
  /\ tokenResult = [token |-> NoToken, fetched |-> FALSE, thrown |-> FALSE]
  /\ phoneIn \in PhoneNumbers
  /\ phoneOut = <<>>

\* formattedPhone = mpesaAuth.validatePhoneNumber(phoneNumber); a throw is
\* recorded as PhoneError.
ValidatePhone ==
  /\ phoneOut = <<>>
  /\ phoneOut' = validatePhoneNumber(phoneIn)
  /\ UNCHANGED <<tasks, txs, notifs, now, resp, inflight, tokenCache, tokenResult, phoneIn, sockets>>
  /\ Notify

\* The stored formattedPhone is passed to validatePhoneNumber again.
Revalidate ==
  /\ phoneOut \notin {<<>>, PhoneError}
  /\ phoneIn # phoneOut
  /\ phoneIn' = phoneOut
  /\ phoneOut' = <<>>
  /\ UNCHANGED <<tasks, txs, notifs, now, resp, inflight, tokenCache, tokenResult, sockets>>
  /\ Notify

NextPhone == ValidatePhone \/ Revalidate

SpecPhone == InitPhone /\ [][NextPhone]_vars

\* A second passes on the adapter's clock.
Elapse ==
  /\ now < MaxSeconds
  /\ now' = now + 1
  /\ UNCHANGED <<tasks, txs, notifs, resp, inflight, adapter, sockets>>
  /\ Notify

\* getAccessToken on its own, called again and again while time passes.
NextToken ==
  \/ Elapse
  \/ \E fetchOK \in BOOLEAN, access_token \in Tokens, expires_in \in ExpiresIn :
        getAccessToken(fetchOK, access_token, expires_in)

SpecToken == Init /\ [][NextToken]_vars

\* The notification routes called by every user, on the notifications the
\* task routes write for the owner and the worker.
NextNotifs ==
  \/ Lifecycle(Parties, {TRUE}, {TRUE})
  \/ \E u \in Users, id \in 1..MaxNotifs : MarkRead(u, id)
  \/ \E u \in Users : MarkAllRead(u)
  \/ \E u \in Users, id \in 1..MaxNotifs : DeleteNotification(u, id)

SpecNotifs == Init /\ [][NextNotifs]_vars

\* ================================================================ claims
Conflict(code) == code \in {400, 409}
Authorization(code) == code \in {401, 403}

CompletedPayouts(ledger, t) ==
  { i \in 1..Len(ledger) : /\ ledger[i].task = t
                           /\ ledger[i].transactionType = "B2C"
                           /\ ledger[i].status = "COMPLETED" }

Payouts(ledger, t) ==
  { i \in 1..Len(ledger) : ledger[i].task = t /\ ledger[i].transactionType = "B2C" }

\* C1: in every reachable state, a task's assignedTo, when set, is one of
\* the users in that task's applicants list.
C1_AssignedIsApplicant ==
  \A t \in 1..Len(tasks) :
    tasks[t].assignedTo # NoUser => tasks[t].assignedTo \in ApplicantSet(tasks[t])

\* C2: in every reachable state, a task with paymentStatus paid has status
\* completed or paid, its completedAt is set and completedAt is not later
\* than paidAt.
C2_PaidImpliesCompleted ==
  \A t \in 1..Len(tasks) :
    tasks[t].paymentStatus = "paid" =>
      /\ tasks[t].status \in {"completed", "paid"}
      /\ tasks[t].completedAt # 0
      /\ tasks[t].completedAt <= tasks[t].paidAt

\* C3: an apply request by a user who is already in the task's applicants
\* list is rejected (400) and leaves the task unchanged, and after every
\* step no user appears twice in a task's applicants list.
C3_DuplicateApplyRejected ==
  [][ /\ \A u \in Users, t \in TaskIds :
           (findById(t) /\ u \in ApplicantSet(tasks[t]) /\ Apply(u, t, BOOLEAN))
             => (Conflict(resp'.code) /\ tasks' = tasks)
      /\ \A t \in 1..Len(tasks') :
           Cardinality(ApplicantSet(tasks'[t])) = Len(tasks'[t].applicants)
    ]_vars

\* C3 witness: a duplicate application has just been refused.
C3_Witness ==
  /\ resp.op = "apply"
  /\ resp.msg = "You already applied to this task"
  /\ findById(resp.task)
  /\ Len(tasks[resp.task].applicants) >= 1

\* C4: an assign request by the owner that names a user outside the task's
\* applicants list is rejected with Conflict and leaves assignedTo and
\* status as they were.
C4_AssignNonApplicantRejected ==
  [][ \A u \in Users, t \in TaskIds, a \in Users \cup {NoUser} :
        ( /\ findById(t)
          /\ tasks[t].postedBy = u
          /\ a \notin ApplicantSet(tasks[t])
          /\ Assign(u, t, a, BOOLEAN) )
        => /\ Conflict(resp'.code)
           /\ tasks'[t].assignedTo = tasks[t].assignedTo
           /\ tasks'[t].status = tasks[t].status
    ]_vars

\* C5: a complete request by anyone but the task's assignedTo, also on a
\* task without assignee, is rejected with an Authorization error and
\* leaves status and completedAt as they were.
C5_CompleteByOtherIsForbidden ==
  [][ \A u \in Users, t \in TaskIds :
        (findById(t) /\ tasks[t].assignedTo # u /\ Complete(u, t, BOOLEAN))
        => /\ Authorization(resp'.code)
           /\ tasks'[t].status = tasks[t].status
           /\ tasks'[t].completedAt = tasks[t].completedAt
    ]_vars

\* A pay request by the owner that directly follows an accepted pay request
\* on the same task.
SecondPay(u, t) ==
  /\ resp.op = "pay" /\ resp.code = 200 /\ resp.task = t
  /\ findById(t) /\ tasks[t].postedBy = u
  /\ Pay(u, t, BOOLEAN)

\* C6 as stated: the second of two consecutive pay calls is rejected with
\* Conflict (already paid) and the ledger then holds exactly one completed
\* payout transaction for the task.
C6_SecondPayLeavesOnePayout ==
  [][ \A u \in Users, t \in TaskIds :
        SecondPay(u, t)
        => /\ Conflict(resp'.code)
           /\ resp'.msg = "Task already paid"
           /\ Cardinality(CompletedPayouts(txs', t)) = 1
    ]_vars

\* C6 as amended: the second of two consecutive pay calls is rejected with
\* Conflict (already paid) and changes neither the task nor the ledger, and
\* no pay call, accepted or rejected, writes to the ledger.
C6_SecondPayRejectedLedgerUntouched ==
  [][ \A u \in Users, t \in TaskIds :
        /\ SecondPay(u, t)
           => /\ Conflict(resp'.code)
              /\ resp'.msg = "Task already paid"
              /\ tasks' = tasks
              /\ txs' = txs
        /\ (resp'.op = "pay" /\ Pay(u, t, BOOLEAN)) => txs' = txs
    ]_vars

\* C6 witness: a second pay was refused as already paid while the ledger
\* holds no completed payout for the task.
C6_Witness ==
  /\ resp.op = "pay"
  /\ resp.msg = "Task already paid"
  /\ CompletedPayouts(txs, resp.task) = {}

\* C7: after every step each payout transaction has commission equal to a
\* tenth of its amount and netAmount = amount - commission, no step changes
\* amount, commission or netAmount of an existing payout, and the Amount
\* submitted to the gateway is the stored netAmount rounded to a whole
\* shilling while the stored netAmount stays unrounded.
C7_CommissionFixedAtCreation ==
  [][ /\ \A i \in 1..Len(txs') :
           txs'[i].transactionType = "B2C" =>
             /\ txs'[i].commission * 10 = txs'[i].amount
             /\ txs'[i].netAmount = txs'[i].amount - txs'[i].commission
             /\ txs'[i].amount = KES(1000) =>
                  (txs'[i].commission = KES(100) /\ txs'[i].netAmount = KES(900))
      /\ \A i \in 1..Len(txs) :
           txs[i].transactionType = "B2C" =>
             /\ Len(txs') >= i
             /\ txs'[i].amount = txs[i].amount
             /\ txs'[i].commission = txs[i].commission
             /\ txs'[i].netAmount = txs[i].netAmount
      /\ (resp'.op = "b2cPayment" /\ resp'.gw \in {"sent", "callfail"}) =>
           LET net == txs'[Len(txs')].netAmount IN
           /\ \E n \in 0..1000 : resp'.gwAmount = KES(n)
           /\ 2 * (resp'.gwAmount - net) <= KES(1)
           /\ 2 * (net - resp'.gwAmount) < KES(1)
    ]_vars

\* C7 witness: a payout of 1000 with commission 100 and net 900 that a
\* gateway callback has already processed.
C7_Witness ==
  \E i \in 1..Len(txs) :
    /\ txs[i].transactionType = "B2C"
    /\ txs[i].amount = KES(1000)
    /\ txs[i].commission = KES(100)
    /\ txs[i].netAmount = KES(900)
    /\ txs[i].callbackReceived

\* C8: a payout-result callback delivered directly after the same result
\* was processed for the same transaction (the first delivery having
\* written its notification) creates no further notification and leaves
\* the transaction's status and the task's status as they were.
C8_ResultRedeliveryIdempotent ==
  [][ \A c \in ConvIds, rc \in ResultCodes :
        ( /\ resp.op = "b2cResult"
          /\ ResultMatch(c, c) # {}
          /\ LET tx == txs[First(ResultMatch(c, c))] IN
             /\ tx.callbackReceived
             /\ tx.status = (IF rc = 0 THEN "COMPLETED" ELSE "FAILED")
             /\ rc = 0 => \E n \in 1..Len(notifs) :
                            /\ notifs[n].user = tx.toUser
                            /\ notifs[n].type = "payment"
                            /\ notifs[n].relatedTask = tx.task
          /\ B2CResult(c, c, rc, BOOLEAN) )
        => LET i == First(ResultMatch(c, c)) IN
           /\ Len(notifs') = Len(notifs)
           /\ txs'[i].status = txs[i].status
           /\ tasks'[txs[i].task].status = tasks[txs[i].task].status
    ]_vars

\* The task shows the scenario: budget 500, exactly one applicant A who is
\* not the owner, A assigned, completion recorded, no payout initiated.
ScenarioTask(task, ledger, t) ==
  /\ task.budget = KES(500)
  /\ Len(task.applicants) = 1
  /\ task.applicants[1] # task.postedBy
  /\ task.assignedTo = task.applicants[1]
  /\ task.completedAt # 0
  /\ Payouts(ledger, t) = {}

\* C9 as stated: once the owner's pay request is accepted at the end of
\* the scenario, the task has status paid and paymentStatus paid and the
\* ledger holds exactly one payout for it, with amount 500, commission 50
\* and netAmount 450.
C9_ScenarioEndsPaidWithPayout ==
  \A t \in 1..Len(tasks) :
    (resp.op = "pay" /\ resp.code = 200 /\ resp.task = t /\ ScenarioTask(tasks[t], txs, t))
    => /\ tasks[t].status = "paid"
       /\ tasks[t].paymentStatus = "paid"
       /\ \E i \in 1..Len(txs) :
            /\ Payouts(txs, t) = {i}
            /\ txs[i].amount = KES(500)
            /\ txs[i].commission = KES(50)
            /\ txs[i].netAmount = KES(450)

\* C9 as amended: the owner's accepted pay request at the end of the
\* scenario leaves the task with status completed and paymentStatus paid
\* and adds no transaction; a task's status becomes paid only in a step of
\* the payout-result callback that leaves a COMPLETED payout for the task;
\* and every payout of amount 500 has commission 50 and netAmount 450.
C9_ScenarioEndsCompletedPaid ==
  [][ /\ \A u \in Users, t \in TaskIds :
           ( /\ findById(t)
             /\ resp'.op = "pay"
             /\ resp'.code = 200
             /\ ScenarioTask(tasks[t], txs, t)
             /\ Pay(u, t, BOOLEAN) )
           => /\ tasks'[t].status = "completed"
              /\ tasks'[t].paymentStatus = "paid"
              /\ txs' = txs
      /\ \A t \in 1..Len(tasks) :
           (tasks'[t].status = "paid" /\ tasks[t].status # "paid")
           => /\ resp'.op = "b2cResult"
              /\ CompletedPayouts(txs', t) # {}
      /\ \A i \in 1..Len(txs') :
           (txs'[i].transactionType = "B2C" /\ txs'[i].amount = KES(500))
           => (txs'[i].commission = KES(50) /\ txs'[i].netAmount = KES(450))
    ]_vars

\* C9 witness: the scenario has just ended with the accepted pay request.
C9_Witness ==
  \E t \in 1..Len(tasks) :
    /\ resp.op = "pay" /\ resp.code = 200 /\ resp.task = t
    /\ ScenarioTask(tasks[t], txs, t)
    /\ tasks[t].status = "completed"
    /\ tasks[t].paymentStatus = "paid"

\* C10: a pay request and a payout initiation by the owner on a task whose
\* status is in-progress are rejected with Conflict and change neither the
\* task nor the ledger.
C10_PayInProgressRejected ==
  [][ \A u \in Users, t \in TaskIds :
        (findById(t) /\ tasks[t].postedBy = u /\ tasks[t].status = "in-progress")
        => /\ Pay(u, t, BOOLEAN) => (Conflict(resp'.code) /\ tasks' = tasks /\ txs' = txs)
           /\ \A p \in PhoneSamples :
                B2CPayment(u, t, p) => (Conflict(resp'.code) /\ tasks' = tasks /\ txs' = txs)
    ]_vars

\* C10 witness: the owner's payment attempt on an in-progress task has just
\* been refused.
C10_Witness ==
  /\ resp.op \in {"pay", "b2cPayment"}
  /\ resp.msg = "Task must be completed before payment"
  /\ findById(resp.task)
  /\ tasks[resp.task].status = "in-progress"

\* Every response of a gateway callback endpoint.
CallbackOps == {"confirmation", "validation", "b2cResult", "b2cTimeout"}

\* C11: every response of a callback endpoint (collection-confirmation,
\* collection-validation, payout-result, payout-timeout) is the envelope
\* {ResultCode: 0, ResultDesc: 'Success'}, whatever the request carried and
\* whatever happened while processing it.
C11_CallbacksAlwaysAcknowledge ==
  resp.op \in CallbackOps => (resp.ResultCode = "0" /\ resp.msg = "Success")

\* C12: a transaction is created PENDING, and once its status is COMPLETED,
\* FAILED or TIMEOUT no step changes that status again.
C12_TerminalStatusIsFinal ==
  [][ /\ \A i \in 1..Len(txs) :
           /\ Len(txs') >= i
           /\ txs[i].status # "PENDING" => txs'[i].status = txs[i].status
      /\ \A i \in (Len(txs) + 1)..Len(txs') : txs'[i].status = "PENDING"
    ]_vars

PendingPayouts(ledger, t) ==
  { i \in 1..Len(ledger) : /\ ledger[i].task = t
                           /\ ledger[i].transactionType = "B2C"
                           /\ ledger[i].status = "PENDING" }

\* C13: in every reachable state, also when payout-initiation requests for
\* the same task overlap, each task has at most one payout (B2C) transaction
\* in status PENDING.
C13_AtMostOnePendingPayout ==
  \A t \in TaskIds : Cardinality(PendingPayouts(txs, t)) <= 1

CompletedCollections(ledger, t) ==
  { i \in 1..Len(ledger) : /\ ledger[i].task = t
                           /\ ledger[i].transactionType = "C2B"
                           /\ ledger[i].status = "COMPLETED" }

\* C14: whenever a step adds a payout (B2C) record to the ledger, the ledger
\* before that step already held a COMPLETED collection (C2B) record for the
\* same task; and no step changes the type or the task of a record.
C14_PayoutAfterCompletedCollection ==
  [][ /\ \A i \in (Len(txs) + 1)..Len(txs') :
           txs'[i].transactionType = "B2C"
             => CompletedCollections(txs, txs'[i].task) # {}
      /\ \A i \in 1..Len(txs) :
           /\ Len(txs') >= i
           /\ txs'[i].transactionType = txs[i].transactionType
           /\ txs'[i].task = txs[i].task
    ]_vars

\* C14 witness: a payout record stands in the ledger behind a COMPLETED
\* collection record of the same task.
C14_Witness ==
  \E i \in 1..Len(txs) :
    /\ txs[i].transactionType = "B2C"
    /\ \E j \in CompletedCollections(txs, txs[i].task) : j < i

\* The response payout initiation owes a request whose first failing check
\* is, in order: task exists, caller is the owner, status is completed, an
\* assignee is set, a COMPLETED collection exists, no PENDING or COMPLETED
\* payout exists.  <<0, "">> when every check passes.
PayoutRejection(u, t) ==
  IF t \notin 1..Len(tasks) THEN <<404, "Task not found">>
  ELSE IF tasks[t].postedBy # u THEN <<403, "Only task owner can trigger payment">>
  ELSE IF tasks[t].status # "completed" THEN <<400, "Task must be completed before payment">>
  ELSE IF tasks[t].assignedTo = NoUser THEN <<400, "Task has no assigned user to pay">>
  ELSE IF CompletedCollections(txs, t) = {}
       THEN <<400, "No confirmed payment found for this task">>
  ELSE IF CompletedPayouts(txs, t) \cup PendingPayouts(txs, t) # {}
       THEN <<400, "Payment already processed for this task">>
  ELSE <<0, "">>

\* C15: a payout-initiation request is answered by the first failing check
\* in the order above, and a rejected request makes no gateway call and
\* writes no transaction record; a request that passes every check with a
\* valid phone number writes its record.
C15_PayoutChecksInOrder ==
  [][ \A u \in Parties, t \in TaskIds, p \in PhoneSamples :
        (resp'.op = "b2cPayment" /\ B2CPayment(u, t, p))
        => IF PayoutRejection(u, t) # <<0, "">>
           THEN /\ resp'.code = PayoutRejection(u, t)[1]
                /\ resp'.msg = PayoutRejection(u, t)[2]
                /\ resp'.gw = "none"
                /\ txs' = txs
           ELSE IF validatePhoneNumber(p) = PhoneError
           THEN resp'.code = 500 /\ resp'.gw = "none" /\ txs' = txs
           ELSE Len(txs') = Len(txs) + 1
    ]_vars

\* C15 witness: a payout request was refused for want of a confirmed
\* collection, and the ledger holds no payout record.
C15_Witness ==
  /\ resp.op = "b2cPayment"
  /\ resp.msg = "No confirmed payment found for this task"
  /\ \A i \in 1..Len(txs) : txs[i].transactionType # "B2C"

\* C16: a collection request whose token acquisition or gateway call fails
\* answers with a failure, and its transaction record, written before the
\* gateway was contacted, is in the ledger as a PENDING C2B record without
\* gateway identifiers; the records before it are untouched.
C16_FailedCollectionKeepsPendingRecord ==
  [][ ( /\ resp'.op = "simulateC2B"
        /\ resp'.gw \in {"tokenfail", "callfail"}
        /\ \E u \in Parties, t \in TaskIds, p \in PhoneSamples, a \in Amounts :
             SimulateC2B(u, t, p, a) )
      => /\ resp'.code >= 500
         /\ Len(txs') = Len(txs) + 1
         /\ SubSeq(txs', 1, Len(txs)) = txs
         /\ LET tx == txs'[Len(txs')] IN
            /\ tx.transactionType = "C2B"
            /\ tx.status = "PENDING"
            /\ tx.task = resp'.task
            /\ tx.conversationId = NoConv
            /\ ~tx.callbackReceived
    ]_vars

\* C16 witness: a collection request failed at the gateway call and its
\* PENDING record is the last of the ledger.
C16_Witness ==
  /\ resp.op = "simulateC2B"
  /\ resp.gw = "callfail"
  /\ resp.code = 500
  /\ Len(txs) > 0
  /\ txs[Len(txs)].transactionType = "C2B"
  /\ txs[Len(txs)].status = "PENDING"

\* A phone number without the separators validatePhoneNumber ignores.
WithoutSeparators(p) == SelectSeq(p, LAMBDA c : c \notin {" ", "-", "+"})

\* Nine digits, the first of them 7 or 1.
IsSubscriber(q) ==
  /\ Len(q) = 9
  /\ q[1] \in {"7", "1"}
  /\ \A i \in 1..9 : q[i] \in {"0", "1", "2", "3", "4", "5", "6", "7", "8", "9"}

\* 254 followed by a subscriber number.
IsCanonical(q) ==
  /\ Len(q) = 12
  /\ SubSeq(q, 1, 3) = <<"2", "5", "4">>
  /\ IsSubscriber(SubSeq(q, 4, 12))

\* The local, international and bare forms of a subscriber number.
IsAcceptedForm(p) ==
  LET q == WithoutSeparators(p) IN
  \E pre \in { <<>>, <<"0">>, <<"2", "5", "4">> } :
    /\ Len(q) = Len(pre) + 9
    /\ SubSeq(q, 1, Len(pre)) = pre
    /\ IsSubscriber(SubSeq(q, Len(pre) + 1, Len(q)))

\* C17: validatePhoneNumber maps the local, international (254 or +254) and
\* bare forms of a subscriber number to 254 followed by that number, throws
\* for every other input, returns only strings of the form 254, 7 or 1,
\* eight digits, and returns its own output unchanged.
C17_PhoneNormalizedOrRejected ==
  phoneOut # <<>> =>
    /\ IF IsAcceptedForm(phoneIn)
       THEN LET q == WithoutSeparators(phoneIn) IN
            phoneOut = <<"2", "5", "4">> \o SubSeq(q, Len(q) - 8, Len(q))
       ELSE phoneOut = PhoneError
    /\ phoneOut # PhoneError => IsCanonical(phoneOut)
    /\ IsCanonical(phoneIn) => phoneOut = phoneIn
    /\ \A sub \in { lead \o body : lead \in PhoneLeads, body \in PhoneBodies } :
         IsSubscriber(sub) =>
           \A pre \in { <<>>, <<"0">>, <<"2", "5", "4">>, <<"+", "2", "5", "4">> } :
             phoneIn = pre \o sub => phoneOut = <<"2", "5", "4">> \o sub

\* C17 witness: the result of validating the local form was validated again
\* and came back unchanged.
C17_Witness ==
  /\ phoneIn = <<"2", "5", "4">> \o Subscriber
  /\ phoneOut = phoneIn

\* C18: a getAccessToken call made while a token is cached and the time is
\* before its recorded expiry returns that token without a fetch and leaves
\* the cache alone; any other call fetches, and then either caches and
\* returns the new token with expiry = time + expires_in - 60 s, or throws
\* and leaves the cache unchanged; a token returned without a fetch is never
\* at or past its recorded expiry.
C18_TokenCacheHonoursExpiry ==
  [][ (\E fetchOK \in BOOLEAN, access_token \in Tokens, expires_in \in ExpiresIn :
         getAccessToken(fetchOK, access_token, expires_in))
      => /\ IF tokenCache.token # NoToken /\ now < tokenCache.expiresAt
            THEN /\ tokenResult'.token = tokenCache.token
                 /\ ~tokenResult'.fetched
                 /\ ~tokenResult'.thrown
                 /\ tokenCache' = tokenCache
            ELSE /\ tokenResult'.fetched
                 /\ IF tokenResult'.thrown
                    THEN tokenCache' = tokenCache /\ tokenResult'.token = NoToken
                    ELSE /\ tokenResult'.token \in Tokens
                         /\ tokenCache'.token = tokenResult'.token
                         /\ \E expires_in \in ExpiresIn :
                              tokenCache'.expiresAt = now + expires_in - 60
         /\ (~tokenResult'.fetched /\ ~tokenResult'.thrown)
              => (tokenResult'.token = tokenCache.token /\ now < tokenCache.expiresAt)
    ]_vars

\* C18 witness: time has passed since the fetch and the call returned the
\* cached token, still before its expiry, without a fetch.
C18_Witness ==
  /\ now > 1
  /\ tokenResult.token # NoToken
  /\ ~tokenResult.fetched
  /\ tokenResult.token = tokenCache.token
  /\ now < tokenCache.expiresAt

\* The record is the same but for isRead, which may have gone from false to
\* true.
SameButRead(old, new) ==
  /\ [new EXCEPT !.isRead = old.isRead] = old
  /\ old.isRead => new.isRead

\* C19: no step takes a notification's isRead from true to false or changes
\* another of its fields; mark-one-read, mark-all-read and delete change or
\* remove only notifications whose target user is the caller, and a
\* mark-one-read or delete request naming a notification of another user
\* (or none) answers NotFound and leaves the store unchanged.
C19_ReadFlagOwnedAndMonotone ==
  [][ /\ \/ /\ Len(notifs') >= Len(notifs)
               /\ \A i \in 1..Len(notifs) : SameButRead(notifs[i], notifs'[i])
            \/ \E k \in 1..Len(notifs) :
                 /\ Len(notifs') = Len(notifs) - 1
                 /\ \A j \in 1..Len(notifs') :
                      notifs'[j] = IF j < k THEN notifs[j] ELSE notifs[j + 1]
      /\ \A u \in Users :
           /\ (resp'.op = "markAllRead" /\ MarkAllRead(u))
                => /\ Len(notifs') = Len(notifs)
                   /\ \A i \in 1..Len(notifs) :
                        notifs[i].user # u => notifs'[i] = notifs[i]
           /\ \A id \in 1..MaxNotifs :
                /\ (resp'.op = "markRead" /\ MarkRead(u, id))
                     => IF id \in 1..Len(notifs) /\ notifs[id].user = u
                        THEN /\ Len(notifs') = Len(notifs)
                             /\ notifs'[id].isRead
                             /\ \A i \in 1..Len(notifs) :
                                  i # id => notifs'[i] = notifs[i]
                        ELSE resp'.code = 404 /\ notifs' = notifs
                /\ (resp'.op = "deleteNotification" /\ DeleteNotification(u, id))
                     => IF id \in 1..Len(notifs) /\ notifs[id].user = u
                        THEN /\ Len(notifs') = Len(notifs) - 1
                             /\ \A j \in 1..Len(notifs') :
                                  notifs'[j] = IF j < id THEN notifs[j] ELSE notifs[j + 1]
                        ELSE resp'.code = 404 /\ notifs' = notifs
    ]_vars

\* C19 witness: the store is full, so the request named an existing
\* notification; it was answered NotFound, and a notification is still
\* unread while another one has been read.
C19_Witness ==
  /\ resp.op \in {"markRead", "deleteNotification"}
  /\ resp.code = 404
  /\ Len(notifs) = MaxNotifs
  /\ \E i \in 1..Len(notifs) : ~notifs[i].isRead
  /\ \E i \in 1..Len(notifs) : notifs[i].isRead

\* C20: when apply, assign, complete or pay passes its checks and the
\* notification then cannot be created (the store gains no record), the
\* task mutation is persisted all the same and the request is answered
\* with its success response.
C20_NotificationFailureKeepsTransition ==
  [][ \A t \in TaskIds : t \in 1..Len(tasks) =>
        \A u \in Users :
          /\ ( /\ tasks[t].postedBy # u
               /\ u \notin ApplicantSet(tasks[t])
               /\ resp'.op = "apply"
               /\ Apply(u, t, {FALSE}) )
             => /\ notifs' = notifs
                /\ tasks'[t].applicants = Append(tasks[t].applicants, u)
                /\ resp'.code = 200 /\ resp'.msg = "Applied successfully"
          /\ \A a \in Users :
               ( /\ tasks[t].postedBy = u
                 /\ resp'.op = "assign"
                 /\ Assign(u, t, a, {FALSE}) )
               => /\ notifs' = notifs
                  /\ tasks'[t].assignedTo = a
                  /\ tasks'[t].status = "in-progress"
                  /\ resp'.code = 200 /\ resp'.msg = "Task assigned successfully"
          /\ ( /\ tasks[t].assignedTo = u
               /\ resp'.op = "complete"
               /\ Complete(u, t, {FALSE}) )
             => /\ notifs' = notifs
                /\ tasks'[t].status = "completed"
                /\ tasks'[t].completedAt = now
                /\ resp'.code = 200 /\ resp'.msg = "Task marked as completed"
          /\ ( /\ tasks[t].postedBy = u
               /\ tasks[t].status = "completed"
               /\ tasks[t].paymentStatus # "paid"
               /\ resp'.op = "pay"
               /\ Pay(u, t, {FALSE}) )
             => /\ notifs' = notifs
                /\ tasks'[t].paymentStatus = "paid"
                /\ tasks'[t].paidAt = now
                /\ resp'.code = 200 /\ resp'.msg = "Payment processed successfully"
    ]_vars

\* C20 witness: the pay request succeeded and the task is marked paid, and
\* no payment notification was written.
C20_Witness ==
  /\ resp.op = "pay"
  /\ resp.code = 200
  /\ tasks[resp.task].paymentStatus = "paid"
  /\ \A i \in 1..Len(notifs) : notifs[i].type # "payment"

\* The place of a status on the path open -> in-progress -> completed -> paid.
StatusRank(status) ==
  CASE status = "open" -> 0
    [] status = "in-progress" -> 1
    [] status = "completed" -> 2
    [] status = "paid" -> 3
    [] OTHER -> 4

\* C22: no step moves a task's status back along open -> in-progress ->
\* completed -> paid, and no step overwrites a completedAt that is set.
C22_StatusOnlyMovesForward ==
  [][ \A t \in 1..Len(tasks) :
        /\ StatusRank(tasks'[t].status) >= StatusRank(tasks[t].status)
        /\ tasks[t].completedAt # 0 => tasks'[t].completedAt = tasks[t].completedAt
    ]_vars

\* C23: an apply request on a task whose status is not open is rejected and
\* leaves the applicants list unchanged.
C23_ApplyOnlyWhileOpen ==
  [][ \A t \in 1..Len(tasks) : tasks[t].status # "open" =>
        \A u \in Users :
          (resp'.op = "apply" /\ Apply(u, t, BOOLEAN))
          => /\ resp'.code >= 400
             /\ tasks'[t].applicants = tasks[t].applicants
    ]_vars

\* Collection records of task t that carry the receipt number TransID.
Receipted(ledger, t, TransID) ==
  { i \in 1..Len(ledger) : /\ ledger[i].task = t
                           /\ ledger[i].transactionType = "C2B"
                           /\ ledger[i].mpesaTransactionId = TransID }

\* C25: a confirmation callback delivered again (same task, same TransID as
\* one that already completed a collection record of the task) completes
\* no further record, leaves the task's paidAt alone and creates no
\* notification.
C25_RedeliveredConfirmationIsIdempotent ==
  [][ \A t \in TaskIds, id \in TransIDs :
        (/\ Receipted(txs, t, id) # {}
         /\ resp'.op = "confirmation"
         /\ Confirmation(t, id, BOOLEAN))
        => /\ CompletedCollections(txs', t) = CompletedCollections(txs, t)
           /\ tasks' = tasks
           /\ notifs' = notifs ]_vars

\* C28: a payout result with a non-zero code, a payout timeout, and a callback
\* that matches no transaction leave every task as it was; a task's status
\* becomes 'paid' only in a step of a payout result with code 0 that matches
\* a transaction, and that step sets paymentStatus 'paid' as well.
C28_OnlySuccessfulResultMarksPaid ==
  [][ /\ \A c \in ConvIds :
           /\ (\E rc \in ResultCodes \ {0} : B2CResult(c, c, rc, BOOLEAN)) => tasks' = tasks
           /\ B2CTimeout(c, c, BOOLEAN) => tasks' = tasks
           /\ (ResultMatch(c, c) = {} /\ \E rc \in ResultCodes : B2CResult(c, c, rc, BOOLEAN))
              => tasks' = tasks
      /\ \A t \in TaskIds \cup {NoTask}, id \in TransIDs :
           (PendingC2B(t) = {} /\ Confirmation(t, id, BOOLEAN)) => tasks' = tasks
      /\ \A t \in 1..Len(tasks) :
           (tasks[t].status # "paid" /\ tasks'[t].status = "paid")
           => /\ tasks'[t].paymentStatus = "paid"
              /\ tasks'[t].paidAt = tasks[t].paidAt
              /\ \E c \in ConvIds :
                   /\ ResultMatch(c, c) # {}
                   /\ txs[First(ResultMatch(c, c))].task = t
                   /\ B2CResult(c, c, 0, BOOLEAN) ]_vars

\* A successful result has marked the task paid.
C28_WitnessPaid ==
  /\ resp.op = "b2cResult"
  /\ \E i \in 1..Len(txs) :
       /\ txs[i].transactionType = "B2C"
       /\ txs[i].status = "COMPLETED"
       /\ tasks[txs[i].task].status = "paid"
       /\ tasks[txs[i].task].paymentStatus = "paid"

\* A non-zero result has failed the payout record and the task is still
\* completed.
C28_Witness ==
  /\ resp.op = "b2cResult"
  /\ \E i \in 1..Len(txs) :
       /\ txs[i].transactionType = "B2C"
       /\ txs[i].status = "FAILED"
       /\ tasks[txs[i].task].status = "completed"

\* C29: a timeout callback that moves a pending payout record to TIMEOUT
\* creates a notification for the record's fromUser.
C29_TimeoutNotifiesOwner ==
  [][ \A c \in ConvIds :
        (TimeoutMatch(c, c) # {} /\ B2CTimeout(c, c, {TRUE}))
        => /\ Len(notifs') = Len(notifs) + 1
           /\ notifs'[Len(notifs')].user = txs[First(TimeoutMatch(c, c))].fromUser ]_vars

\* C26: in every reachable state, whatever payout initiations, timeouts and
\* results came before, each task has at most one COMPLETED payout (B2C)
\* record.
C26_AtMostOneCompletedPayout ==
  \A t \in TaskIds : Cardinality(CompletedPayouts(txs, t)) <= 1

\* Payout records of task t that are PENDING and carry no conversation id.
StuckPayouts(ledger, t) ==
  { i \in PendingPayouts(ledger, t) : /\ ledger[i].conversationId = NoConv
                                       /\ ledger[i].originatorConversationId = NoConv }

\* The checks of payout initiation that come before the look for an earlier
\* payout: the task exists, the caller owns it, it is completed, it has an
\* assignee and a COMPLETED collection.
PassesEarlierChecks(u, t) ==
  /\ t \in 1..Len(tasks)
  /\ tasks[t].postedBy = u
  /\ tasks[t].status = "completed"
  /\ tasks[t].assignedTo # NoUser
  /\ CompletedCollections(txs, t) # {}

\* C27: a payout initiation that passed its checks and then failed at the
\* token or at the gateway call adds a PENDING payout record without
\* conversation ids; such a record stays in the ledger as it is; and while
\* a task has a PENDING payout record no payout initiation for it is
\* accepted, the owner's request that passes the earlier checks being
\* answered 'Payment already processed for this task'.
C27_FailedInitiationBlocksLaterPayouts ==
  [][ /\ \A k \in 1..Len(inflight) :
           (resp'.gw \in {"tokenfail", "callfail"} /\ B2CPaymentFinish(k))
           => /\ Len(txs') = Len(txs) + 1
              /\ Len(txs') \in StuckPayouts(txs', inflight[k].task)
              /\ resp'.code = 500
      /\ \A t \in TaskIds : \A i \in StuckPayouts(txs, t) :
           Len(txs') >= i /\ txs'[i] = txs[i]
      /\ \A t \in TaskIds : PendingPayouts(txs, t) # {} =>
           \A u \in Users, p \in PhoneSamples :
             B2CPaymentBegin(u, t, p)
             => /\ inflight' = inflight
                /\ txs' = txs
                /\ resp'.op = "b2cPayment" /\ resp'.code >= 400
                /\ PassesEarlierChecks(u, t)
                   => /\ resp'.code = 400
                      /\ resp'.msg = "Payment already processed for this task" ]_vars

\* C27 witness: the owner's payout request has just been refused as already
\* processed while the record of a failed initiation is still PENDING
\* without conversation ids.
C27_Witness ==
  /\ resp.op = "b2cPayment"
  /\ resp.msg = "Payment already processed for this task"
  /\ StuckPayouts(txs, resp.task) # {}

PaymentNotifications(t, u) ==
  { n \in 1..Len(notifs) : /\ notifs[n].type = "payment"
                           /\ notifs[n].relatedTask = t
                           /\ notifs[n].user = u }

\* C24: nothing stands between the paymentStatus guard and the write: a pay
\* request that passed the guard is accepted when it comes to write, also
\* when the task has been paid in between, and leaves a payment notification
\* for the assignee it read if the notification write succeeds; a pay
\* request passes the guard only when the task it reads is completed and
\* unpaid and the caller owns it; and an
\* assign request that passed its checks is accepted when it comes to write
\* and, naming another user than the assignee it read, leaves its own
\* applicantId in assignedTo, whatever was written in between.
C24_OverlappingRequestsBothAccepted ==
  [][ \A k \in 1..Len(inflight) :
        /\ (inflight[k].op = "pay" /\ PayFinish(k, BOOLEAN))
           => /\ resp' = Reply("pay", inflight[k].task, 200, "Payment processed successfully")
              /\ tasks'[inflight[k].task].paymentStatus = "paid"
              /\ Len(notifs') > Len(notifs)
                 => /\ notifs'[Len(notifs')].type = "payment"
                    /\ notifs'[Len(notifs')].user = inflight[k].loaded.assignedTo
        /\ (inflight[k].op = "assign" /\ AssignFinish(k, BOOLEAN))
           => /\ resp' = Reply("assign", inflight[k].task, 200, "Task assigned successfully")
              /\ inflight[k].applicantId # inflight[k].loaded.assignedTo
                 => tasks'[inflight[k].task].assignedTo = inflight[k].applicantId
        /\ (Len(inflight') > Len(inflight) /\ inflight'[Len(inflight')].op = "pay")
           => LET t == inflight'[Len(inflight')].task IN
              /\ tasks[t].status = "completed"
              /\ tasks[t].paymentStatus # "paid"
              /\ tasks[t].postedBy = inflight'[Len(inflight')].user ]_vars

\* C24 witness: two pay requests have both been accepted on the same task:
\* the second answer is out, none is in flight, and the assignee holds two
\* payment notifications for the task.
C24_Witness ==
  /\ resp.op = "pay" /\ resp.code = 200
  /\ inflight = <<>>
  /\ findById(resp.task)
  /\ Cardinality(PaymentNotifications(resp.task, tasks[resp.task].assignedTo)) = 2

\* Two assign requests overlap: the first has been accepted and written its
\* applicant, the second, naming another user, is still to write.
C24_WitnessAssign ==
  /\ resp.op = "assign" /\ resp.code = 200
  /\ \E k \in 1..Len(inflight) :
       /\ inflight[k].op = "assign"
       /\ inflight[k].task = resp.task
       /\ inflight[k].loaded.status = "open"
       /\ tasks[resp.task].assignedTo \notin {NoUser, inflight[k].applicantId}

UserRooms(c) == { r \in rooms[c] : r[1] = "user" }

\* C21: a connection enters the room of user u only in a step of
\* authenticate with a token that is signed with the server's key, not
\* expired, and carries u; an authenticate with any other token changes no
\* room and no socket.userId and answers authError; and a newNotification
\* event goes only to members of the room of the notification's user, for a
\* record the emitting handler has just stored.
C21_NotificationsReachOnlyTheirUser ==
  [][ /\ \A c \in Conns : \A r \in UserRooms(c)' \ UserRooms(c) :
           \E token \in JwtTokens :
             /\ token.key = "JWT_SECRET" /\ ~token.expired
             /\ r = UserRoom(token.userId)
             /\ Authenticate(c, token)
      /\ \A c \in Conns, token \in JwtTokens :
           ((token.key # "JWT_SECRET" \/ token.expired) /\ Authenticate(c, token))
           => /\ rooms' = rooms
              /\ socketUser' = socketUser
              /\ delivered' = {Event(c, "authError", NoUser, NoTask, NoUser, <<>>)}
      /\ \A d \in delivered' :
           d.event = "newNotification"
           => /\ UserRoom(d.user) \in rooms[d.conn]
              /\ Len(notifs') > Len(notifs)
              /\ notifs'[Len(notifs')].user = d.user ]_vars

\* C21 witness: a notification for a user has just been delivered to the
\* connection authenticated as that user, while the other connection, which
\* sits in the task's room but in no room of that user, got nothing.
C21_Witness ==
  \E d \in delivered :
    /\ d.event = "newNotification"
    /\ socketUser[d.conn] = d.user
    /\ \E c \in Conns \ {d.conn} :
         /\ TaskRoom(d.task) \in rooms[c]
         /\ UserRoom(d.user) \notin rooms[c]
         /\ socketUser[c] \notin {NoUser, d.user}
         /\ \A e \in delivered : e.conn # c

\* C30: every newMessage event that reaches a connection carries a message
\* that is in the message store with the task's owner or assignee as sender,
\* and reaches a connection of the task's owner or assignee; and a
\* connection enters a task's room only as the task's owner or assignee.
C30_TaskRoomOnlyForOwnerAndAssignee ==
  [][ /\ \A d \in delivered' :
           d.event = "newMessage"
           => /\ findById(d.task)
              /\ \E i \in 1..Len(messages') :
                   /\ messages'[i].taskId = d.task
                   /\ messages'[i].sender = d.sender
                   /\ messages'[i].content = d.content
              /\ MayMessage(tasks[d.task], d.sender)
              /\ MayMessage(tasks[d.task], socketUser[d.conn])
      /\ \A c \in Conns, t \in TaskIds :
           (TaskRoom(t) \in rooms'[c] /\ TaskRoom(t) \notin rooms[c])
           => (findById(t) /\ MayMessage(tasks[t], socketUser[c])) ]_vars

====
